---- MODULE Spec2Model ----
(***************************************************************************)
(* Price-list merger (merge_pricelists.py): the ingestion pipeline of      *)
(* PricelistMerger over an SQLite store, its identifier sanitizers and     *)
(* its header detector.                                                    *)
(*                                                                         *)
(* Text is a sequence of one-character strings, so that sanitizing,        *)
(* sorting and substring search are computed character by character as    *)
(* the Python code computes them.                                          *)
(***************************************************************************)
EXTENDS Integers, Sequences, FiniteSets, TLC

(***************************************************************************)
(* Characters                                                              *)
(***************************************************************************)

\* The printable ASCII characters in code-point order (32..126): the order
\* Python compares str by, used by sorted() in get_all_files. The grave
\* accent (96) cannot be written in a string here; "<grave>" holds its place.
Ascii ==
  <<" ", "!", "\"", "#", "$", "%", "&", "'", "(", ")", "*", "+",
    ",", "-", ".", "/", "0", "1", "2", "3", "4", "5", "6", "7",
    "8", "9", ":", ";", "<", "=", ">", "?", "@", "A", "B", "C",
    "D", "E", "F", "G", "H", "I", "J", "K", "L", "M", "N", "O",
    "P", "Q", "R", "S", "T", "U", "V", "W", "X", "Y", "Z", "[",
    "\\", "]", "^", "_", "<grave>", "a", "b", "c", "d", "e", "f", "g",
    "h", "i", "j", "k", "l", "m", "n", "o", "p", "q", "r", "s",
    "t", "u", "v", "w", "x", "y", "z", "{", "|", "}", "~">>

Ord(c) == CHOOSE i \in 1..Len(Ascii) : Ascii[i] = c

Range(s) == {s[i] : i \in 1..Len(s)}

LowerLetters == {Ascii[i] : i \in 66..91}
UpperLetters == {Ascii[i] : i \in 34..59}
Digits == {Ascii[i] : i \in 17..26}

\* The class [a-zA-Z0-9_] of the regular expression in get_safe_table_name.
WordChars == LowerLetters \cup UpperLetters \cup Digits \cup {"_"}

\* invalid_chars of clean_column_name: the only characters it replaces.
InvalidChars ==
  {" ", "-", ".", "(", ")", "[", "]", "{", "}", "!", "@", "#", "$", "%", "^",
   "&", "*", "+", "=", "|", "\\", "/", ":", ";", "\"", "'", ",", "<", ">", "?"}

\* str.lower() on one character: "A".."Z" are 32 code points below "a".."z".
LowerChar(c) == IF c \in UpperLetters THEN Ascii[Ord(c) + 32] ELSE c

\* str.lower()
Lower(s) == [i \in 1..Len(s) |-> LowerChar(s[i])]

(***************************************************************************)
(* Text helpers used by both sanitizers                                    *)
(***************************************************************************)

\* s[:n]
Truncate(s, n) == IF Len(s) > n THEN SubSeq(s, 1, n) ELSE s

\* re.sub(r'_+', '_', s), and the fixpoint of the loop
\* "while '__' in s: s = s.replace('__', '_')": every run of underscores
\* becomes one underscore.
RECURSIVE CollapseUnderscores(_)
CollapseUnderscores(s) ==
  IF Len(s) < 2 THEN s
  ELSE IF s[1] = "_" /\ s[2] = "_" THEN CollapseUnderscores(Tail(s))
  ELSE <<s[1]>> \o CollapseUnderscores(Tail(s))

\* s.lstrip('_')
RECURSIVE LStripUnderscores(_)
LStripUnderscores(s) ==
  IF s # <<>> /\ s[1] = "_" THEN LStripUnderscores(Tail(s)) ELSE s

\* s.rstrip('_')
RECURSIVE RStripUnderscores(_)
RStripUnderscores(s) ==
  IF s # <<>> /\ s[Len(s)] = "_"
  THEN RStripUnderscores(SubSeq(s, 1, Len(s) - 1)) ELSE s

\* s.strip('_')
StripUnderscores(s) == RStripUnderscores(LStripUnderscores(s))

\* re.sub(r'^[0-9]+', '', s)
RECURSIVE StripLeadingDigits(_)
StripLeadingDigits(s) ==
  IF s # <<>> /\ s[1] \in Digits THEN StripLeadingDigits(Tail(s)) ELSE s

\* Python's "t in s" for str: t occurs in s as a contiguous substring.
IsSubstring(t, s) ==
  \E i \in 1..(Len(s) - Len(t) + 1) : SubSeq(s, i, i + Len(t) - 1) = t

\* The decimal numeral of a small natural number, as f"{counter}" writes it.
RECURSIVE Numeral(_)
Numeral(n) ==
  IF n < 10 THEN <<Ascii[17 + n]>> ELSE Numeral(n \div 10) \o <<Ascii[17 + (n % 10)]>>

(***************************************************************************)
(* Literals of the program                                                 *)
(***************************************************************************)

UNNAMED_TABLE == <<"u", "n", "n", "a", "m", "e", "d", "_", "t", "a", "b", "l", "e">>
UNNAMED_COLUMN == <<"u", "n", "n", "a", "m", "e", "d", "_", "c", "o", "l", "u", "m", "n">>
TABLE_PREFIX == <<"t", "a", "b", "l", "e", "_">>
CSV == <<"C", "S", "V">>
COL_ID == <<"i", "d">>
COL_SOURCE_ROW == <<"s", "o", "u", "r", "c", "e", "_", "r", "o", "w">>
COL_PROCESSED_AT == <<"p", "r", "o", "c", "e", "s", "s", "e", "d", "_", "a", "t">>
COL_SOURCE_FILE == <<"s", "o", "u", "r", "c", "e", "_", "f", "i", "l", "e">>
COL_SHEET_NAME == <<"s", "h", "e", "e", "t", "_", "n", "a", "m", "e">>

\* The length both sanitizers cut their result to.
MaxTableNameLen == 50
MaxColumnNameLen == 50

(***************************************************************************)
(* Identifier sanitizers                                                   *)
(***************************************************************************)

\* Path(file_path).stem: the file name without its last suffix.
Stem(name) ==
  LET dots == {i \in 2..Len(name) : name[i] = "."}
  IN IF dots = {} THEN name
     ELSE SubSeq(name, 1, (CHOOSE i \in dots : \A j \in dots : j <= i) - 1)

\* Path(file_path).suffix.lower(): the last suffix, with its dot.
Suffix(name) ==
  LET dots == {i \in 2..Len(name) : name[i] = "."}
  IN IF dots = {} THEN <<>>
     ELSE Lower(SubSeq(name, CHOOSE i \in dots : \A j \in dots : j <= i, Len(name)))

\* A table sanitizer that replaces only the characters of invalid_chars.
get_safe_table_name_listed(file_name, sheet) ==
  LET stem == Stem(file_name)
      joined == IF sheet # <<>> /\ sheet # CSV
                THEN stem \o <<"_">> \o sheet ELSE stem
      subbed == [i \in 1..Len(joined) |->
                   IF joined[i] \in InvalidChars THEN "_" ELSE joined[i]]
      stripped == StripUnderscores(CollapseUnderscores(subbed))
      nodigits == StripUnderscores(StripLeadingDigits(stripped))
      cut == Truncate(nodigits, MaxTableNameLen)
      named == IF cut = <<>> THEN UNNAMED_TABLE ELSE cut
  IN IF named[1] \in Digits THEN TABLE_PREFIX \o named ELSE named

\* get_safe_table_name(file_path, sheet_name): sheet is <<>> for None.
get_safe_table_name(file_name, sheet) ==
  LET stem == Stem(file_name)
      joined == IF sheet # <<>> /\ sheet # CSV
                THEN stem \o <<"_">> \o sheet ELSE stem
      subbed == [i \in 1..Len(joined) |->
                   IF joined[i] \in WordChars THEN joined[i] ELSE "_"]
      stripped == StripUnderscores(CollapseUnderscores(subbed))
      nodigits == StripUnderscores(StripLeadingDigits(stripped))
      cut == Truncate(nodigits, MaxTableNameLen)
      named == IF cut = <<>> THEN UNNAMED_TABLE ELSE cut
  IN IF named[1] \in Digits THEN TABLE_PREFIX \o named ELSE named

\* clean_column_name(column_name) up to the truncation, for a column_name
\* that is not None (str() of it has been taken): lines 376-405.
CleanBase(raw) ==
  LET replaced == [i \in 1..Len(raw) |->
                     IF raw[i] \in InvalidChars THEN "_" ELSE raw[i]]
      stripped == StripUnderscores(CollapseUnderscores(replaced))
      named == IF stripped = <<>> THEN UNNAMED_COLUMN ELSE stripped
      nodigits == StripUnderscores(StripLeadingDigits(named))
      renamed == IF nodigits = <<>> THEN UNNAMED_COLUMN ELSE nodigits
  IN Truncate(renamed, MaxColumnNameLen)

\* column_name is None.
None == <<"None">>

\* clean_column_name(column_name) called without existing_columns.
clean_column_name(raw) == IF raw = None THEN UNNAMED_COLUMN ELSE CleanBase(raw)

\* The loop of lines 409-413: the first of name, name_1, name_2, ... that is
\* not in existing.
RECURSIVE Suffixed(_, _, _)
Suffixed(original, counter, existing) ==
  LET candidate == original \o <<"_">> \o Numeral(counter)
  IN IF candidate \in existing
     THEN Suffixed(original, counter + 1, existing) ELSE candidate

\* clean_column_name(column_name, existing_columns): the returned name; the
\* caller's set becomes existing \cup {the returned name}.
clean_column_name_in(raw, existing) ==
  IF raw = None THEN UNNAMED_COLUMN
  ELSE LET name == CleanBase(raw)
       IN IF name \in existing THEN Suffixed(name, 1, existing) ELSE name

\* existing_columns after clean_column_name(column_name, existing_columns):
\* the returned name is added, except on the early return for None.
existing_columns_after(raw, existing) ==
  IF raw = None THEN existing
  ELSE existing \cup {clean_column_name_in(raw, existing)}

(***************************************************************************)
(* Cell values and parsed tables (pandas DataFrames)                       *)
(***************************************************************************)

\* A cell is <<kind, n>>: NaN, a Python int n, a Python int too large for a
\* 64-bit SQLite INTEGER, or a str (the text whose code is n; the numeral of
\* n when it comes from str(n)).
NaN == <<"nan", 0>>
IntCell(n) == <<"int", n>>
BigCell(n) == <<"big", n>>
TextCell(n) == <<"text", n>>
\* What the store holds for a column no value was given for, and for None.
NULL == <<"null", 0>>
\* What the store fills in itself (AUTOINCREMENT id, DEFAULT CURRENT_TIMESTAMP).
AUTO == <<"auto", 0>>

\* pd.isna(value) / not pd.notna(value)
IsNa(v) == v[1] = "nan"

\* str(value)
StrOf(v) ==
  CASE v[1] = "int" -> <<"text", v[2]>>
    [] v[1] = "big" -> <<"bigtext", v[2]>>
    [] OTHER -> v

(***************************************************************************)
(* The price-list folder: the files the model draws doc_folder from.       *)
(* A file is [name, sheets]; a sheet is [sheet, sid, cols], cols a         *)
(* sequence of [name, kind]: the header text and what its cells hold.      *)
(* A delimited-text file has the one sheet "CSV".                          *)
(***************************************************************************)

\* Rows of every non-empty parsed table, drawn from 1..MaxRows.
MaxRows == 2
\* Runs of merge_all_pricelists against the same store.
MaxRuns == 2

Col(name, kind) == [name |-> name, kind |-> kind]

\* Exported earlier from a store, so it carries a source_row column; its
\* name sanitizes to the same table name as FileA_B's.
FileAB ==
  [name |-> <<"a", " ", "b", ".", "c", "s", "v">>,
   sheets |-> << [sheet |-> CSV, sid |-> 1,
                  cols |-> <<Col(COL_SOURCE_ROW, "int"), Col(<<"p">>, "text")>>] >>]

FileA_B ==
  [name |-> <<"a", "-", "b", ".", "c", "s", "v">>,
   sheets |-> << [sheet |-> CSV, sid |-> 2,
                  cols |-> <<Col(<<"p">>, "text"), Col(<<"q">>, "text")>>] >>]

\* A workbook: two headers that sanitize alike, an empty sheet, a sheet with
\* an integer beyond 64 bits in its last row, and one more sheet.
FileC ==
  [name |-> <<"c", ".", "x", "l", "s", "x">>,
   sheets |-> << [sheet |-> <<"s", "1">>, sid |-> 3,
                  cols |-> <<Col(<<"x", " ", "y">>, "text"), Col(<<"x", "-", "y">>, "text")>>],
                 [sheet |-> <<"s", "2">>, sid |-> 4, cols |-> <<>>],
                 [sheet |-> <<"s", "3">>, sid |-> 5,
                  cols |-> <<Col(<<"p">>, "text"), Col(<<"w">>, "biglast")>>],
                 [sheet |-> <<"s", "4">>, sid |-> 6,
                  cols |-> <<Col(<<"p">>, "text")>>] >>]

\* A source_file column whose last cell is empty.
FileD ==
  [name |-> <<"d", ".", "c", "s", "v">>,
   sheets |-> << [sheet |-> CSV, sid |-> 7,
                  cols |-> <<Col(COL_SOURCE_FILE, "nanlast"), Col(<<"p">>, "text")>>] >>]

FileE ==
  [name |-> <<"e", ".", "c", "s", "v">>,
   sheets |-> << [sheet |-> CSV, sid |-> 8,
                  cols |-> <<Col(<<"p">>, "int"), Col(<<"r">>, "nan")>>] >>]

Catalogue == {FileAB, FileA_B, FileC, FileD, FileE}

\* The cell of row i (of n) in column j of sheet sh.
Cell(sh, i, j, n) ==
  LET kind == sh.cols[j].kind
      code == 100 * sh.sid + 10 * j + i
  IN CASE kind = "text" -> TextCell(code)
       [] kind = "int" -> IntCell(code)
       [] kind = "nan" -> NaN
       [] kind = "nanlast" -> IF i = n THEN NaN ELSE TextCell(code)
       [] kind = "biglast" -> IF i = n THEN BigCell(code) ELSE IntCell(code)

\* The DataFrame pandas parses from a sheet: its column labels and its rows,
\* indexed 0..n-1 (row i of the model has index i-1).
DataFrame(sh, n) ==
  [columns |-> [j \in 1..Len(sh.cols) |-> sh.cols[j].name],
   rows |-> IF sh.cols = <<>> THEN <<>>
            ELSE [i \in 1..n |-> [j \in 1..Len(sh.cols) |-> Cell(sh, i, j, n)]]]

\* df.empty
IsEmpty(df) == df.columns = <<>> \/ df.rows = <<>>

(***************************************************************************)
(* get_all_files: the folder's files sorted by path                        *)
(***************************************************************************)

\* Python's str comparison s <= t.
RECURSIVE LexLeq(_, _)
LexLeq(s, t) ==
  IF s = <<>> THEN TRUE
  ELSE IF t = <<>> THEN FALSE
  ELSE IF s[1] = t[1] THEN LexLeq(Tail(s), Tail(t))
  ELSE Ord(s[1]) < Ord(t[1])

RECURSIVE SortedByName(_)
SortedByName(S) ==
  IF S = {} THEN <<>>
  ELSE LET first == CHOOSE f \in S : \A g \in S : LexLeq(f.name, g.name)
       IN <<first>> \o SortedByName(S \ {first})

\* get_all_files(): every file of the folder (all have a supported
\* extension), sorted.
get_all_files(dir) == SortedByName(dir)

ExcelSuffixes == {<<".", "x", "l", "s", "x">>, <<".", "x", "l", "s">>, <<".", "x", "l", "s", "m">>}

(***************************************************************************)
(* The header detector, detect_data_start_row.                             *)
(* A Cyrillic letter is written as one character "ru:<latin>" (capital:    *)
(* "RU:<LATIN>"), so that the terms keep their letters one for one and     *)
(* substring search sees what Python sees.                                 *)
(***************************************************************************)

CyrLower ==
  <<"ru:a", "ru:b", "ru:v", "ru:g", "ru:d", "ru:e", "ru:yo", "ru:zh",
    "ru:z", "ru:i", "ru:j", "ru:k", "ru:l", "ru:m", "ru:n", "ru:o", "ru:p",
    "ru:r", "ru:s", "ru:t", "ru:u", "ru:f", "ru:h", "ru:c", "ru:ch",
    "ru:sh", "ru:sch", "ru:hard", "ru:y", "ru:soft", "ru:eh", "ru:yu",
    "ru:ya">>

CyrUpper ==
  <<"RU:A", "RU:B", "RU:V", "RU:G", "RU:D", "RU:E", "RU:YO", "RU:ZH",
    "RU:Z", "RU:I", "RU:J", "RU:K", "RU:L", "RU:M", "RU:N", "RU:O", "RU:P",
    "RU:R", "RU:S", "RU:T", "RU:U", "RU:F", "RU:H", "RU:C", "RU:CH",
    "RU:SH", "RU:SCH", "RU:HARD", "RU:Y", "RU:SOFT", "RU:EH", "RU:YU",
    "RU:YA">>

\* str.lower() on one character, for the letters the model writes.
PyLowerChar(c) ==
  IF c \in UpperLetters THEN Ascii[Ord(c) + 32]
  ELSE IF \E i \in 1..Len(CyrUpper) : CyrUpper[i] = c
  THEN CyrLower[CHOOSE i \in 1..Len(CyrUpper) : CyrUpper[i] = c]
  ELSE c

\* str.lower()
PyLower(s) == [i \in 1..Len(s) |-> PyLowerChar(s[i])]

\* str.strip(): leading and trailing blanks removed.
RECURSIVE LStripBlanks(_)
LStripBlanks(s) == IF s # <<>> /\ s[1] = " " THEN LStripBlanks(Tail(s)) ELSE s

RECURSIVE RStripBlanks(_)
RStripBlanks(s) ==
  IF s # <<>> /\ s[Len(s)] = " " THEN RStripBlanks(SubSeq(s, 1, Len(s) - 1)) ELSE s

StripBlanks(s) == RStripBlanks(LStripBlanks(s))

\* typical_headers (lines 426-449).
typical_headers ==
  {<<"ru:a", "ru:r", "ru:t", "ru:i", "ru:k", "ru:u", "ru:l">>,
   <<"ru:n", "ru:a", "ru:i", "ru:m", "ru:e", "ru:n", "ru:o", "ru:v", "ru:a", "ru:n", "ru:i", "ru:e">>,
   <<"ru:n", "ru:a", "ru:z", "ru:v", "ru:a", "ru:n", "ru:i", "ru:e">>,
   <<"ru:k", "ru:o", "ru:d">>, <<"ru:n", "ru:o", "ru:m", "ru:e", "ru:r">>,
   <<"ru:c", "ru:e", "ru:n", "ru:a">>,
   <<"ru:s", "ru:t", "ru:o", "ru:i", "ru:m", "ru:o", "ru:s", "ru:t", "ru:soft">>,
   <<"ru:k", "ru:o", "ru:l", "ru:i", "ru:ch", "ru:e", "ru:s", "ru:t", "ru:v", "ru:o">>,
   <<"ru:e", "ru:d">>, <<"ru:sh", "ru:t">>, <<"ru:r", "ru:u", "ru:b">>,
   <<"u", "s", "d">>, <<"e", "u", "r">>,
   <<"c", "a", "t", "e", "g", "o", "r", "y">>,
   <<"ru:k", "ru:a", "ru:t", "ru:e", "ru:g", "ru:o", "ru:r", "ru:i", "ru:ya">>,
   <<"p", "a", "r", "t", "n", "u", "m", "b", "e", "r">>,
   <<"ru:o", "ru:p", "ru:i", "ru:s", "ru:a", "ru:n", "ru:i", "ru:e">>,
   <<"ru:h", "ru:a", "ru:r", "ru:a", "ru:k", "ru:t", "ru:e", "ru:r", "ru:i", "ru:s", "ru:t", "ru:i", "ru:k", "ru:i">>,
   <<"ru:v", "ru:e", "ru:s">>,
   <<"ru:o", "ru:b", "ru:hard", "ru:e", "ru:m">>,
   <<"ru:n", "ru:o", "ru:m", "ru:e", "ru:n", "ru:k", "ru:l", "ru:a", "ru:t", "ru:u", "ru:r", "ru:a">>,
   <<"ru:z", "ru:a", "ru:k", "ru:a", "ru:z">>,
   <<"ru:t", "ru:o", "ru:v", "ru:a", "ru:r">>,
   <<"ru:p", "ru:r", "ru:o", "ru:d", "ru:u", "ru:k", "ru:t">>,
   <<"ru:i", "ru:z", "ru:d", "ru:e", "ru:l", "ru:i", "ru:e">>,
   <<"ru:m", "ru:o", "ru:d", "ru:e", "ru:l", "ru:soft">>,
   <<"ru:m", "ru:a", "ru:r", "ru:k", "ru:a">>,
   <<"ru:b", "ru:r", "ru:e", "ru:n", "ru:d">>,
   <<"ru:p", "ru:r", "ru:o", "ru:i", "ru:z", "ru:v", "ru:o", "ru:d", "ru:i", "ru:t", "ru:e", "ru:l", "ru:soft">>,
   <<"ru:p", "ru:o", "ru:s", "ru:t", "ru:a", "ru:v", "ru:sch", "ru:i", "ru:k">>,
   <<"ru:m", "ru:a", "ru:t", "ru:e", "ru:r", "ru:i", "ru:a", "ru:l">>,
   <<"ru:c", "ru:v", "ru:e", "ru:t">>,
   <<"ru:r", "ru:a", "ru:z", "ru:m", "ru:e", "ru:r">>,
   <<"ru:d", "ru:l", "ru:i", "ru:n", "ru:a">>,
   <<"ru:sh", "ru:i", "ru:r", "ru:i", "ru:n", "ru:a">>,
   <<"ru:v", "ru:y", "ru:s", "ru:o", "ru:t", "ru:a">>,
   <<"ru:d", "ru:i", "ru:a", "ru:m", "ru:e", "ru:t", "ru:r">>,
   <<"ru:m", "ru:o", "ru:sch", "ru:n", "ru:o", "ru:s", "ru:t", "ru:soft">>,
   <<"ru:n", "ru:a", "ru:p", "ru:r", "ru:ya", "ru:zh", "ru:e", "ru:n", "ru:i", "ru:e">>,
   <<"ru:t", "ru:o", "ru:k">>,
   <<"ru:ch", "ru:a", "ru:s", "ru:t", "ru:o", "ru:t", "ru:a">>,
   <<"ru:t", "ru:e", "ru:m", "ru:p", "ru:e", "ru:r", "ru:a", "ru:t", "ru:u", "ru:r", "ru:a">>,
   <<"ru:d", "ru:a", "ru:v", "ru:l", "ru:e", "ru:n", "ru:i", "ru:e">>,
   <<"ru:s", "ru:k", "ru:o", "ru:r", "ru:o", "ru:s", "ru:t", "ru:soft">>,
   <<"ru:v", "ru:r", "ru:e", "ru:m", "ru:ya">>,
   <<"ru:d", "ru:a", "ru:t", "ru:a">>,
   <<"ru:s", "ru:u", "ru:m", "ru:m", "ru:a">>,
   <<"ru:i", "ru:t", "ru:o", "ru:g", "ru:o">>,
   <<"ru:s", "ru:k", "ru:i", "ru:d", "ru:k", "ru:a">>,
   <<"ru:n", "ru:a", "ru:c", "ru:e", "ru:n", "ru:k", "ru:a">>,
   <<"ru:n", "ru:a", "ru:l", "ru:o", "ru:g">>,
   <<"ru:p", "ru:o", "ru:sh", "ru:l", "ru:i", "ru:n", "ru:a">>,
   <<"ru:d", "ru:o", "ru:s", "ru:t", "ru:a", "ru:v", "ru:k", "ru:a">>,
   <<"ru:u", "ru:p", "ru:a", "ru:k", "ru:o", "ru:v", "ru:k", "ru:a">>,
   <<"ru:g", "ru:a", "ru:r", "ru:a", "ru:n", "ru:t", "ru:i", "ru:ya">>,
   <<"ru:s", "ru:e", "ru:r", "ru:v", "ru:i", "ru:s">>,
   <<"ru:o", "ru:b", "ru:s", "ru:l", "ru:u", "ru:zh", "ru:i", "ru:v", "ru:a", "ru:n", "ru:i", "ru:e">>,
   <<"ru:k", "ru:g">>, <<"ru:g">>, <<"ru:l">>, <<"ru:m", "ru:l">>,
   <<"ru:m">>, <<"ru:s", "ru:m">>, <<"ru:m", "ru:m">>,
   <<"ru:k", "ru:v", ".", "ru:m">>,
   <<"ru:k", "ru:u", "ru:b", ".", "ru:m">>, <<"ru:sh", "ru:t">>,
   <<"ru:k", "ru:o", "ru:m", "ru:p", "ru:l">>,
   <<"ru:u", "ru:p", "ru:a", "ru:k">>,
   <<"ru:p", "ru:a", "ru:ch", "ru:k", "ru:a">>,
   <<"ru:k", "ru:o", "ru:r", "ru:o", "ru:b", "ru:k", "ru:a">>,
   <<"ru:ya", "ru:sch", "ru:i", "ru:k">>,
   <<"ru:m", "ru:e", "ru:sh", "ru:o", "ru:k">>,
   <<"ru:s", "ru:t", "ru:a", "ru:t", "ru:u", "ru:s">>,
   <<"ru:s", "ru:o", "ru:s", "ru:t", "ru:o", "ru:ya", "ru:n", "ru:i", "ru:e">>,
   <<"ru:n", "ru:a", "ru:l", "ru:i", "ru:ch", "ru:i", "ru:e">>,
   <<"ru:o", "ru:s", "ru:t", "ru:a", "ru:t", "ru:o", "ru:k">>,
   <<"ru:s", "ru:k", "ru:l", "ru:a", "ru:d">>,
   <<"ru:m", "ru:e", "ru:s", "ru:t", "ru:o">>,
   <<"ru:a", "ru:d", "ru:r", "ru:e", "ru:s">>,
   <<"ru:k", "ru:o", "ru:n", "ru:t", "ru:a", "ru:k", "ru:t">>,
   <<"ru:t", "ru:e", "ru:l", "ru:e", "ru:f", "ru:o", "ru:n">>,
   <<"e", "m", "a", "i", "l">>, <<"ru:s", "ru:a", "ru:j", "ru:t">>,
   <<"ru:i", "ru:n", "ru:f", "ru:o", "ru:r", "ru:m", "ru:a", "ru:c", "ru:i", "ru:ya">>}

\* strong_headers (line 466).
strong_headers ==
  {<<"ru:z", "ru:a", "ru:k", "ru:a", "ru:z">>,
   <<"ru:n", "ru:a", "ru:z", "ru:v", "ru:a", "ru:n", "ru:i", "ru:e">>,
   <<"ru:a", "ru:r", "ru:t", "ru:i", "ru:k", "ru:u", "ru:l">>,
   <<"ru:k", "ru:o", "ru:d">>, <<"ru:c", "ru:e", "ru:n", "ru:a">>,
   <<"ru:n", "ru:o", "ru:m", "ru:e", "ru:n", "ru:k", "ru:l", "ru:a", "ru:t", "ru:u", "ru:r", "ru:a">>}

\* service_words (lines 478-484).
service_words ==
  {<<"ru:eh", "ru:l", "ru:e", "ru:k", "ru:t", "ru:r", "ru:o", "ru:r", "ru:e", "ru:sh", "ru:e", "ru:n", "ru:i", "ru:ya">>,
   <<"ru:u", "ru:s", "ru:t", "ru:o", "ru:j", "ru:ch", "ru:i", "ru:v", "ru:o", "ru:g", "ru:o">>,
   <<"ru:b", "ru:u", "ru:d", "ru:u", "ru:sch", "ru:e", "ru:g", "ru:o">>,
   <<"ru:k", "ru:a", "ru:l", "ru:soft", "ru:k", "ru:u", "ru:l", "ru:ya", "ru:t", "ru:o", "ru:r", "ru:y">>,
   <<"ru:k", "ru:o", "ru:n", "ru:f", "ru:i", "ru:g", "ru:u", "ru:r", "ru:a", "ru:t", "ru:o", "ru:r", "ru:y">>,
   <<"ru:a", "ru:r", "ru:t", "ru:i", "ru:k", "ru:u", "ru:l", "ru:o", "ru:v">>,
   <<"ru:s", "ru:o", "ru:b", "ru:s", "ru:t", "ru:v", "ru:e", "ru:n", "ru:n", "ru:y", "ru:h">>,
   <<"ru:p", "ru:r", "ru:o", "ru:i", "ru:z", "ru:v", "ru:o", "ru:d", "ru:s", "ru:t", "ru:v", "ru:e", "ru:n", "ru:n", "ru:y", "ru:h">>,
   <<"ru:k", "ru:o", "ru:m", "ru:p", "ru:l", "ru:e", "ru:k", "ru:s", "ru:a">>,
   <<"ru:i", "ru:t", "ru:o", "ru:g", "ru:o">>,
   <<"ru:z", "ru:e", "ru:l", "ru:e", "ru:n", "ru:y", "ru:j">>,
   <<"ru:c", "ru:v", "ru:e", "ru:t">>,
   <<"ru:n", "ru:a", "ru:i", "ru:m", "ru:e", "ru:n", "ru:o", "ru:v", "ru:a", "ru:n", "ru:i", "ru:ya">>,
   <<"ru:p", "ru:o", "ru:z", "ru:i", "ru:c", "ru:i", "ru:ya">>,
   <<"ru:o", "ru:zh", "ru:i", "ru:d", "ru:a", "ru:e", "ru:t", "ru:s", "ru:ya">>,
   <<"ru:u", "ru:k", "ru:a", "ru:z", "ru:a", "ru:n", "ru:n", "ru:u", "ru:yu">>,
   <<"ru:d", "ru:a", "ru:t", "ru:u">>,
   <<"ru:o", "ru:r", "ru:a", "ru:n", "ru:zh", "ru:e", "ru:v", "ru:y", "ru:j">>,
   <<"ru:n", "ru:o", "ru:v", "ru:i", "ru:n", "ru:k", "ru:i">>,
   <<"ru:eh", "ru:k", "ru:s", "ru:p", "ru:r", "ru:e", "ru:s", "ru:s">>,
   <<"ru:d", "ru:o", "ru:s", "ru:t", "ru:a", "ru:v", "ru:k", "ru:a">>,
   <<"ru:o", "ru:t", "ru:f", "ru:i", "ru:l", "ru:soft", "ru:t", "ru:r", "ru:u", "ru:j", "ru:t", "ru:e">>,
   <<"ru:n", "ru:e", "ru:p", "ru:u", "ru:s", "ru:t", "ru:y", "ru:e">>,
   <<"ru:z", "ru:n", "ru:a", "ru:ch", "ru:e", "ru:n", "ru:i", "ru:ya">>,
   <<"ru:p", "ru:o", "ru:l", "ru:yu">>, <<"i", "m", "s">>,
   <<"ru:n", "ru:a", "ru:zh", "ru:m", "ru:i", "ru:t", "ru:e">>,
   <<"ru:z", "ru:a", "ru:g", "ru:r", "ru:u", "ru:z", "ru:i", "ru:t", "ru:soft">>,
   <<"x", "l", "s">>}

\* A cell of a raw grid that is a str.
StrCell(s) == <<"str", s>>

\* "pd.notna(val) and isinstance(val, str)"
IsStrCell(v) == v[1] = "str"

\* Whether a cell counts for a list of terms: it is a str and some term
\* occurs in val.lower().strip().
CellHasTerm(v, terms) ==
  /\ IsStrCell(v)
  /\ \E t \in terms : IsSubstring(t, StripBlanks(PyLower(v[2])))

\* The first rows the detector examines.
ScanLimit == 30
\* service_count above which a row is passed over.
MaxServiceCount == 2
\* found_headers from which a row is taken as the header.
MinFoundHeaders == 3
\* strong_matches from which a row is taken as the header.
MinStrongMatches == 2

\* The cells the model draws raw grids from.
CellArtikul == StrCell(<<"RU:A", "ru:r", "ru:t", "ru:i", "ru:k", "ru:u", "ru:l">>)
CellNaimenovanie == StrCell(<<"RU:N", "ru:a", "ru:i", "ru:m", "ru:e", "ru:n", "ru:o", "ru:v", "ru:a", "ru:n", "ru:i", "ru:e">>)
CellCena == StrCell(<<"RU:C", "ru:e", "ru:n", "ru:a">>)
CellKod == StrCell(<<"RU:K", "ru:o", "ru:d">>)
CellVes == StrCell(<<"RU:V", "ru:e", "ru:s">>)
CellKolichestvo == StrCell(<<"RU:K", "ru:o", "ru:l", "ru:i", "ru:ch", "ru:e", "ru:s", "ru:t", "ru:v", "ru:o">>)
CellThreeTerms == StrCell(<<"RU:A", "ru:r", "ru:t", "ru:i", "ru:k", "ru:u", "ru:l", " ", "RU:K", "ru:o", "ru:d", " ", "RU:C", "ru:e", "ru:n", "ru:a">>)
CellItogo == StrCell(<<"RU:I", "ru:t", "ru:o", "ru:g", "ru:o">>)
CellDostavka == StrCell(<<"RU:D", "ru:o", "ru:s", "ru:t", "ru:a", "ru:v", "ru:k", "ru:a">>)
CellNovinki == StrCell(<<" ", "RU:N", "ru:o", "ru:v", "ru:i", "ru:n", "ru:k", "ru:i", " ">>)
CellXls == StrCell(<<"p", "r", "i", "c", "e", ".", "X", "L", "S">>)
CellOther == StrCell(<<"a", "b", "c">>)
CellCvet == StrCell(<<"RU:C", "ru:v", "ru:e", "ru:t">>)

GridCells ==
  {CellArtikul, CellNaimenovanie, CellCena, CellKod, CellVes, CellKolichestvo,
   CellThreeTerms, CellItogo, CellDostavka, CellNovinki, CellXls, CellOther,
   CellCvet}

\* The three tests of every cell the model draws, worked out once.
CellClass ==
  [v \in GridCells |->
     [typical |-> CellHasTerm(v, typical_headers),
      strong |-> CellHasTerm(v, strong_headers),
      service |-> CellHasTerm(v, service_words)]]

HasTypical(v) ==
  /\ IsStrCell(v)
  /\ IF v \in GridCells THEN CellClass[v].typical ELSE CellHasTerm(v, typical_headers)
HasStrong(v) ==
  /\ IsStrCell(v)
  /\ IF v \in GridCells THEN CellClass[v].strong ELSE CellHasTerm(v, strong_headers)
HasService(v) ==
  /\ IsStrCell(v)
  /\ IF v \in GridCells THEN CellClass[v].service ELSE CellHasTerm(v, service_words)

\* found_headers of a row: its cells holding a typical header (lines 452-462).
found_headers(row) == Cardinality({j \in 1..Len(row) : HasTypical(row[j])})

\* strong_matches of a row (lines 466-475).
strong_matches(row) == Cardinality({j \in 1..Len(row) : HasStrong(row[j])})

\* service_count of a row (lines 486-493).
service_count(row) == Cardinality({j \in 1..Len(row) : HasService(row[j])})

\* No veto at all.
IsServiceRow_never(row) == FALSE

\* A veto that strikes only above 3 boilerplate cells.
IsServiceRow_above_three(row) == service_count(row) > MaxServiceCount + 1

\* A veto that already strikes at 2 boilerplate cells.
IsServiceRow_from_two(row) == service_count(row) >= MaxServiceCount

\* "if service_count > 2: continue"
IsServiceRow(row) == service_count(row) > MaxServiceCount

\* "if found_headers >= 3 or strong_matches >= 2"
LooksLikeHeader(row) ==
  found_headers(row) >= MinFoundHeaders \/ strong_matches(row) >= MinStrongMatches

\* A loop over every row of the grid.
ScanRows_all(grid) == Len(grid)

\* The number of rows the loop examines: min(30, len(df)).
ScanRows(grid) == IF Len(grid) < ScanLimit THEN Len(grid) ELSE ScanLimit

\* The loop of detect_data_start_row from index i (0-based) on: the first
\* row that is no service row and looks like a header, else 0.
RECURSIVE ScanFrom(_, _)
ScanFrom(grid, i) ==
  IF i >= ScanRows(grid) THEN 0
  ELSE IF IsServiceRow(grid[i + 1]) THEN ScanFrom(grid, i + 1)
  ELSE IF LooksLikeHeader(grid[i + 1]) THEN i
  ELSE ScanFrom(grid, i + 1)

\* detect_data_start_row(df)
detect_data_start_row(grid) == ScanFrom(grid, 0)

\* The rows the model builds raw grids from (four cells wide).
RowHeader == <<CellArtikul, CellNaimenovanie, CellCena, NaN>>
RowTypical == <<CellVes, CellNaimenovanie, CellKolichestvo, CellOther>>
RowStrong == <<CellKod, CellCena, NaN, IntCell(5)>>
RowOneCell == <<CellThreeTerms, NaN, NaN, NaN>>
RowBanner == <<CellItogo, CellDostavka, CellNovinki, CellCena>>
RowTwoService == <<CellItogo, CellDostavka, CellCena, CellKod>>
RowBannerFour == <<CellItogo, CellDostavka, CellCvet, CellNovinki>>
RowBlank == <<NaN, NaN, NaN, NaN>>
RowData == <<IntCell(5), CellOther, NaN, CellXls>>

GridRows ==
  {RowHeader, RowTypical, RowStrong, RowOneCell, RowBanner, RowTwoService,
   RowBannerFour, RowBlank, RowData}

\* The rows a grid ends with, after its leading blank rows.
MaxGridRows == 3

\* The numbers of blank rows a grid starts with: none, or enough to bring
\* its last rows to the end of the first 30.
LeadingBlanks == {0, ScanLimit - 2, ScanLimit - 1, ScanLimit}

RawGrids ==
  {[i \in 1..k |-> RowBlank] \o tail :
     k \in LeadingBlanks,
     tail \in UNION {[1..n -> GridRows] : n \in 1..MaxGridRows}}

(***************************************************************************)
(* The SQLite store as the code uses it.                                   *)
(* A store is [tables, meta]: tables maps a table name to [cols, rows],    *)
(* rows a sequence of [run, file, sheet, vals]: vals maps each column to   *)
(* its value, and run/file/sheet record which processing inserted the row. *)
(* meta is the content of pricelists_metadata, oldest record first.        *)
(***************************************************************************)

ALL_PRICELISTS == <<"a", "l", "l", "_", "p", "r", "i", "c", "e", "l", "i", "s", "t", "s">>

OK == "ok"

EmptyStore == [tables |-> <<>>, meta |-> <<>>]

HasTable(st, t) == t \in DOMAIN st.tables

\* The columns of table t (PRAGMA table_info), none when t does not exist.
TableColumns(st, t) == IF HasTable(st, t) THEN st.tables[t].cols ELSE <<>>

TableRows(st, t) == IF HasTable(st, t) THEN st.tables[t].rows ELSE <<>>

\* SQLite matches identifiers without regard to case.
SameIdentifier(a, b) == Lower(a) = Lower(b)

\* Whether SQLite reads an unquoted name as one identifier (ASCII names).
IsIdentifier(name) ==
  /\ name # <<>>
  /\ name[1] \notin Digits
  /\ \A i \in 1..Len(name) : name[i] \in WordChars

\* CREATE TABLE IF NOT EXISTS t (cols): nothing when t exists; an error when
\* a name is no identifier or two names are the same identifier.
ExecCreateTable(st, t, cols) ==
  IF HasTable(st, t) THEN [store |-> st, error |-> OK]
  ELSE IF \E i \in 1..Len(cols) : ~IsIdentifier(cols[i])
  THEN [store |-> st, error |-> "syntax error"]
  ELSE IF \E i, j \in 1..Len(cols) : i # j /\ SameIdentifier(cols[i], cols[j])
  THEN [store |-> st, error |-> "duplicate column name"]
  ELSE [store |-> [st EXCEPT !.tables = (t :> [cols |-> cols, rows |-> <<>>]) @@ @],
        error |-> OK]

\* ALTER TABLE t ADD COLUMN c TEXT: the rows present hold NULL in c.
ExecAddColumn(st, t, c) ==
  IF ~IsIdentifier(c) THEN [store |-> st, error |-> "syntax error"]
  ELSE IF ~HasTable(st, t) THEN [store |-> st, error |-> "no such table"]
  ELSE IF \E i \in 1..Len(st.tables[t].cols) : SameIdentifier(st.tables[t].cols[i], c)
  THEN [store |-> st, error |-> "duplicate column name"]
  ELSE [store |-> [st EXCEPT !.tables[t] =
                     [cols |-> Append(@.cols, c),
                      rows |-> [i \in 1..Len(@.rows) |->
                                  [@.rows[i] EXCEPT !.vals = (c :> NULL) @@ @]]]],
        error |-> OK]

(***************************************************************************)
(* Python dicts (insertion-ordered) as sequences of [k, v]                 *)
(***************************************************************************)

DictKeys(d) == [i \in 1..Len(d) |-> d[i].k]

DictHas(d, k) == \E i \in 1..Len(d) : d[i].k = k

\* d[k] = v: an existing key keeps its place and takes the new value.
DictSet(d, k, v) ==
  IF DictHas(d, k)
  THEN [i \in 1..Len(d) |-> IF d[i].k = k THEN [k |-> k, v |-> v] ELSE d[i]]
  ELSE Append(d, [k |-> k, v |-> v])

\* The columns that must not be NULL, by table.
NotNullColumns(t) == IF t = ALL_PRICELISTS THEN {COL_SOURCE_FILE} ELSE {}

\* The value an INSERT naming the dict's keys stores in column c: that of
\* the first key that is the identifier c; the default otherwise.
StoredValue(d, c) ==
  LET hits == {i \in 1..Len(d) : SameIdentifier(d[i].k, c)}
  IN IF hits # {} THEN d[CHOOSE i \in hits : \A j \in hits : i <= j].v
     ELSE IF c \in {COL_ID, COL_PROCESSED_AT} THEN AUTO
     ELSE NULL

\* cursor.execute("INSERT INTO t (keys) VALUES (?...)", values) for the row
\* tagged tag ([run, file, sheet]).
ExecInsert(st, t, d, tag) ==
  IF ~HasTable(st, t) THEN [store |-> st, error |-> "no such table"]
  ELSE
    LET cols == st.tables[t].cols
        row == [c \in Range(cols) |-> StoredValue(d, c)]
    IN IF \E i \in 1..Len(d) : \A c \in Range(cols) : ~SameIdentifier(d[i].k, c)
       THEN [store |-> st, error |-> "no such column"]
       ELSE IF \E i \in 1..Len(d) : d[i].v[1] = "big"
       THEN [store |-> st, error |-> "OverflowError"]
       ELSE IF \E c \in NotNullColumns(t) \cap Range(cols) : row[c] = NULL
       THEN [store |-> st, error |-> "NOT NULL constraint failed"]
       ELSE [store |-> [st EXCEPT !.tables[t].rows =
                          Append(@, [run |-> tag.run, file |-> tag.file,
                                     sheet |-> tag.sheet, vals |-> row])],
             error |-> OK]

(***************************************************************************)
(* The connection: db is [conn, disk]. conn is the store as the open       *)
(* connection sees it, disk the store as committed. Python's sqlite3 opens *)
(* a transaction at the first INSERT and keeps everything executed since   *)
(* the last commit pending, DDL included.                                  *)
(***************************************************************************)

\* conn.commit()
Commit(db) == [db EXCEPT !.disk = db.conn]

\* conn.rollback()
Rollback(db) == [db EXCEPT !.conn = db.disk]

\* conn.close(): what is pending is dropped.
Close(db) == [db EXCEPT !.conn = db.disk]

(***************************************************************************)
(* PricelistMerger: schema and insertion methods.                          *)
(* Each returns [db, error]: the connection afterwards and OK, or the      *)
(* error of the exception the method lets out.                             *)
(***************************************************************************)

\* A str value that is a name (file name, sheet name) rather than a cell.
NameValue(s) == <<"name", s>>

\* create_metadata_table(): CREATE TABLE IF NOT EXISTS, commit.
create_metadata_table(db) == Commit(db)

UnifiedBaseColumns ==
  <<COL_ID, COL_SOURCE_FILE, COL_SHEET_NAME, COL_SOURCE_ROW, COL_PROCESSED_AT>>

\* create_unified_table(): CREATE TABLE IF NOT EXISTS all_pricelists, commit.
create_unified_table(db) ==
  Commit([db EXCEPT !.conn =
            ExecCreateTable(db.conn, ALL_PRICELISTS, UnifiedBaseColumns).store])

\* add_column_to_unified_table without its try/except: the store's error
\* gets out.
add_column_to_unified_table_raising(db, col) ==
  LET r == ExecAddColumn(db.conn, ALL_PRICELISTS, clean_column_name(col))
  IN IF r.error = OK
     THEN [db |-> Commit([db EXCEPT !.conn = r.store]), error |-> OK]
     ELSE [db |-> db, error |-> r.error]

\* add_column_to_unified_table resolving a collision with a present column
\* the way clean_column_name resolves one within a header: by a suffix.
add_column_to_unified_table_suffixing(db, col) ==
  LET present == Range(TableColumns(db.conn, ALL_PRICELISTS))
      r == ExecAddColumn(db.conn, ALL_PRICELISTS,
                         clean_column_name_in(col, present))
  IN IF r.error = OK
     THEN [db |-> Commit([db EXCEPT !.conn = r.store]), error |-> OK]
     ELSE [db |-> db, error |-> OK]

\* add_column_to_unified_table(column_name): ALTER TABLE and commit; any
\* exception is passed over.
add_column_to_unified_table(db, col) ==
  LET r == ExecAddColumn(db.conn, ALL_PRICELISTS, clean_column_name(col))
  IN IF r.error = OK
     THEN [db |-> Commit([db EXCEPT !.conn = r.store]), error |-> OK]
     ELSE [db |-> db, error |-> OK]

\* "for col in df.columns: self.add_column_to_unified_table(col)"; an
\* exception of a call would end the loop.
RECURSIVE AddColumns(_, _)
AddColumns(db, columns) ==
  IF columns = <<>> THEN [db |-> db, error |-> OK]
  ELSE LET r == add_column_to_unified_table(db, Head(columns))
       IN IF r.error # OK THEN r ELSE AddColumns(r.db, Tail(columns))

\* The loop of lines 180-184 of create_table_for_file: every column label
\* cleaned against the names chosen so far.
RECURSIVE CleanColumnsIn(_, _)
CleanColumnsIn(columns, existing) ==
  IF columns = <<>> THEN <<>>
  ELSE LET name == clean_column_name_in(Head(columns), existing)
       IN <<name>> \o CleanColumnsIn(Tail(columns),
                                     existing_columns_after(Head(columns), existing))

\* The column list of a per-source table.
PerSourceColumns(columns) ==
  <<COL_ID, COL_SOURCE_ROW, COL_PROCESSED_AT>> \o CleanColumnsIn(columns, {})

\* create_table_for_file(table_name, df, ...)
create_table_for_file(db, table_name, df) ==
  LET r == ExecCreateTable(db.conn, table_name, PerSourceColumns(df.columns))
  IN IF r.error = OK
     THEN [db |-> Commit([db EXCEPT !.conn = r.store]), error |-> OK]
     ELSE [db |-> db, error |-> r.error]

\* The value insert_data_to_table stores for a cell (lines 225-232).
TableValue(v) ==
  IF IsNa(v) THEN NULL
  ELSE IF v[1] \in {"int", "big"} THEN v
  ELSE StrOf(v)

\* The value insert_to_unified_table stores for a cell (line 118).
UnifiedValue(v) == IF IsNa(v) THEN NULL ELSE StrOf(v)

\* insert_data of insert_data_to_table for row i: lines 214-234, columns
\* from j on added to d.
RECURSIVE TableInsertData(_, _, _, _, _)
TableInsertData(d, df, i, j, table_columns) ==
  IF j > Len(df.columns) THEN d
  ELSE LET clean_col == clean_column_name(df.columns[j])
       IN TableInsertData(
            IF clean_col \in Range(table_columns)
            THEN DictSet(d, clean_col, TableValue(df.rows[i][j])) ELSE d,
            df, i, j + 1, table_columns)

\* insert_data of insert_to_unified_table for row i: lines 116-118.
RECURSIVE UnifiedInsertData(_, _, _, _)
UnifiedInsertData(d, df, i, j) ==
  IF j > Len(df.columns) THEN d
  ELSE UnifiedInsertData(
         DictSet(d, clean_column_name(df.columns[j]), UnifiedValue(df.rows[i][j])),
         df, i, j + 1)

\* One INSERT per dict, in order, until one raises: the store with the rows
\* inserted before it, and the error.
RECURSIVE InsertAll(_, _, _, _)
InsertAll(st, t, dicts, tag) ==
  IF dicts = <<>> THEN [store |-> st, error |-> OK]
  ELSE LET r == ExecInsert(st, t, Head(dicts), tag)
       IN IF r.error # OK THEN r ELSE InsertAll(r.store, t, Tail(dicts), tag)

\* insert_data_to_table(table_name, df, ...): on an exception the pending
\* rows are rolled back.
insert_data_to_table(db, table_name, df, tag) ==
  LET table_columns == TableColumns(db.conn, table_name)
      dicts == [i \in 1..Len(df.rows) |->
                  TableInsertData(<<[k |-> COL_SOURCE_ROW, v |-> IntCell(i)]>>,
                                  df, i, 1, table_columns)]
      r == InsertAll(db.conn, table_name, dicts, tag)
  IN IF r.error = OK
     THEN [db |-> Commit([db EXCEPT !.conn = r.store]), error |-> OK]
     ELSE [db |-> Rollback([db EXCEPT !.conn = r.store]), error |-> r.error]

\* insert_to_unified_table(df, file_path, sheet_name): on an exception the
\* error is logged and raised again; nothing is rolled back.
insert_to_unified_table(db, df, file_name, sheet_name, tag) ==
  LET added == AddColumns(db, df.columns)
      dicts == [i \in 1..Len(df.rows) |->
                  UnifiedInsertData(<<[k |-> COL_SOURCE_FILE, v |-> NameValue(file_name)],
                                      [k |-> COL_SHEET_NAME, v |-> NameValue(sheet_name)],
                                      [k |-> COL_SOURCE_ROW, v |-> IntCell(i)]>>,
                                    df, i, 1)]
      r == InsertAll(added.db.conn, ALL_PRICELISTS, dicts, tag)
  IN IF added.error # OK THEN added
     ELSE IF r.error = OK
     THEN [db |-> Commit([added.db EXCEPT !.conn = r.store]), error |-> OK]
     ELSE [db |-> [added.db EXCEPT !.conn = r.store], error |-> r.error]

\* MetadataRecord with len(df) and len(df.columns) passed in each other's
\* place.
MetadataRecord_swapped(table_name, file_name, sheet_name, row_count, column_count, file_format, now) ==
  [table_name |-> table_name, source_file |-> file_name, source_sheet |-> sheet_name,
   row_count |-> column_count, column_count |-> row_count,
   file_format |-> file_format, processed_at |-> now]

\* The record add_metadata writes; processed_at (CURRENT_TIMESTAMP) is the
\* number of the run. file_size_mb is left out.
MetadataRecord(table_name, file_name, sheet_name, row_count, column_count, file_format, now) ==
  [table_name |-> table_name, source_file |-> file_name, source_sheet |-> sheet_name,
   row_count |-> row_count, column_count |-> column_count,
   file_format |-> file_format, processed_at |-> now]

\* The statement as a plain INSERT into a table whose table_name is not
\* UNIQUE.
ExecInsertOrReplace_plain(meta, rec) == Append(meta, rec)

\* INSERT OR REPLACE INTO pricelists_metadata: table_name is UNIQUE, so the
\* record of the same table_name is deleted and the new one added.
ExecInsertOrReplace(meta, rec) ==
  SelectSeq(meta, LAMBDA m : m.table_name # rec.table_name) \o <<rec>>

\* add_metadata(...): the upsert and a commit.
add_metadata(db, rec) ==
  Commit([db EXCEPT !.conn.meta = ExecInsertOrReplace(db.conn.meta, rec)])

(***************************************************************************)
(* The export and view scripts: what they read from the database file.     *)
(***************************************************************************)
PRICELISTS_METADATA ==
  <<"p", "r", "i", "c", "e", "l", "i", "s", "t", "s", "_",
    "m", "e", "t", "a", "d", "a", "t", "a">>

\* pricelists_metadata exists once a run has got to create_metadata_table;
\* create_unified_table follows it at once.
HasMetadataTable(st) == HasTable(st, ALL_PRICELISTS)

\* SELECT name FROM sqlite_master WHERE type='table' AND name=?
InSqliteMaster(st, t) ==
  HasTable(st, t) \/ (t = PRICELISTS_METADATA /\ HasMetadataTable(st))

\* SELECT COUNT(*) FROM t
CountRows(st, t) ==
  IF t = PRICELISTS_METADATA THEN Len(st.meta) ELSE Len(TableRows(st, t))

\* The first word of str.split(); <<>> when there is none (Python raises
\* IndexError on [0]).
RECURSIVE TakeWord(_)
TakeWord(s) ==
  IF s = <<>> \/ s[1] = " " THEN <<>> ELSE <<s[1]>> \o TakeWord(Tail(s))

FirstWord(s) == TakeWord(LStripBlanks(s))

\* SQLite's  text LIKE pattern : % stands for any run of characters, _ for
\* any one character, an ASCII letter for itself in either case.
RECURSIVE Like(_, _)
Like(pattern, text) ==
  IF pattern = <<>> THEN text = <<>>
  ELSE IF pattern[1] = "%"
  THEN \E k \in 0..Len(text) : Like(Tail(pattern), SubSeq(text, k + 1, Len(text)))
  ELSE /\ text # <<>>
       /\ pattern[1] = "_" \/ LowerChar(pattern[1]) = LowerChar(text[1])
       /\ Like(Tail(pattern), Tail(text))

\* SELECT table_name, source_sheet, row_count FROM pricelists_metadata
\* WHERE source_file LIKE '%<first word>%'
SelectBySource(st, source_file) ==
  LET pattern == <<"%">> \o FirstWord(source_file) \o <<"%">>
  IN SelectSeq(st.meta, LAMBDA m : Like(pattern, m.source_file))

\* What a call of one of the scripts' functions came to: the function, its
\* argument, what it returned, the line it printed last, the metadata
\* records it selected and the sheets of the workbook it wrote (name, rows).
Outcome(call, arg, returned, message, selected, workbook) ==
  [call |-> call, arg |-> arg, returned |-> returned, message |-> message,
   selected |-> selected, workbook |-> workbook]

NoOutcome == Outcome("none", <<>>, "None", "", <<>>, <<>>)

\* export_specific_table(table_name)
export_specific_table(st, t) ==
  IF ~InSqliteMaster(st, t)
  THEN Outcome("export_specific_table", t, "False", "table not found", <<>>, <<>>)
  ELSE Outcome("export_specific_table", t, "True", "export finished", <<>>,
               <<[sheet |-> "data", rows |-> CountRows(st, t)]>>)

\* export_by_source(source_file)
export_by_source(st, source_file) ==
  IF ~HasMetadataTable(st)
  THEN Outcome("export_by_source", source_file, "False", "no such table", <<>>, <<>>)
  ELSE IF FirstWord(source_file) = <<>>
  THEN Outcome("export_by_source", source_file, "False", "IndexError", <<>>, <<>>)
  ELSE LET results == SelectBySource(st, source_file)
       IN IF results = <<>>
          THEN Outcome("export_by_source", source_file, "False", "file not found",
                       <<>>, <<>>)
          ELSE Outcome("export_by_source", source_file, "True", "export finished",
                       results,
                       <<[sheet |-> "summary", rows |-> Len(results)]>> \o
                       [i \in 1..Len(results) |->
                          [sheet |-> results[i].table_name,
                           rows |-> CountRows(st, results[i].table_name)]])

\* search_by_source(source_file): it returns None on every path; an
\* exception is caught and printed.
search_by_source(st, source_file) ==
  IF ~HasMetadataTable(st)
  THEN Outcome("search_by_source", source_file, "None", "no such table", <<>>, <<>>)
  ELSE IF FirstWord(source_file) = <<>>
  THEN Outcome("search_by_source", source_file, "None", "IndexError", <<>>, <<>>)
  ELSE LET results == SelectBySource(st, source_file)
       IN IF results = <<>>
          THEN Outcome("search_by_source", source_file, "None", "file not found",
                       <<>>, <<>>)
          ELSE Outcome("search_by_source", source_file, "None", "tables found",
                       results, <<>>)

SECTION_SEPARATOR ==
  <<"s", "e", "c", "t", "i", "o", "n", "_",
    "s", "e", "p", "a", "r", "a", "t", "o", "r">>

\* export_unified_table(): it returns None on every path and prints what
\* went wrong. df['section_separator'] raises KeyError when all_pricelists
\* has no column of exactly that name; the sheet written before it is in
\* the file or not, as the ExcelWriter leaves it on the exception (saved).
export_unified_table(st, saved) ==
  LET rows == TableRows(st, ALL_PRICELISTS)
      all_data == [sheet |-> "all_data", rows |-> Len(rows)]
      separators == {rows[i].vals[SECTION_SEPARATOR] : i \in 1..Len(rows)} \ {NULL}
      data_rows == {i \in 1..Len(rows) : rows[i].vals[SECTION_SEPARATOR] = NULL}
      sources == {<<rows[i].vals[COL_SOURCE_FILE], rows[i].vals[COL_SHEET_NAME]>> :
                    i \in data_rows}
  IN IF ~HasTable(st, ALL_PRICELISTS)
     THEN Outcome("export_unified_table", <<>>, "None", "no such table", <<>>, <<>>)
     ELSE IF rows = <<>>
     THEN Outcome("export_unified_table", <<>>, "None", "table is empty", <<>>, <<>>)
     ELSE IF SECTION_SEPARATOR \notin Range(TableColumns(st, ALL_PRICELISTS))
     THEN Outcome("export_unified_table", <<>>, "None", "KeyError", <<>>,
                  IF saved THEN <<all_data>> ELSE <<>>)
     ELSE Outcome("export_unified_table", <<>>, "None", "export finished", <<>>,
                  <<all_data,
                    [sheet |-> "sections", rows |-> Cardinality(separators)],
                    [sheet |-> "source_stats", rows |-> Cardinality(sources)]>>)

(***************************************************************************)
(* The run of merge_all_pricelists                                         *)
(***************************************************************************)

VARIABLES
  folder,   \* the files of doc_folder
  nrows,    \* the rows of every non-empty parsed table
  db,       \* the store: [conn, disk]
  run,      \* runs of merge_all_pricelists started so far
  files,    \* get_all_files() of the run in progress
  fi,       \* the file being processed (index in files)
  si,       \* the sheet being processed (index in its sheets)
  step,     \* "idle", or the step the current source is at
  log,      \* what the logger has reported: [run, file, sheet, step, script_result]
  runEnd,   \* the committed store at the end of each run
  raw_df,   \* the raw grid of a sheet, read with header=None
  header_row_index,  \* what detect_data_start_row returned for raw_df
  detected, \* whether detect_data_start_row has returned
  raw_column_name,      \* a raw column name given to clean_column_name
  cleanings,        \* what clean_column_name returned, applied again and again
  df_columns,          \* df.columns: the raw header of a table
  clean_columns,    \* the names clean_column_name has returned for them
  existing_columns, \* the set create_table_for_file shares between the calls
  arg_file_path,        \* the file name given to get_safe_table_name
  arg_sheet_name,       \* the sheet name given to get_safe_table_name
  safe_table_name,       \* what get_safe_table_name returned (<<>>: not called)
  script_result                \* what the last call of an export or view function came to

vars ==
  <<folder, nrows, db, run, files, fi, si, step, log, runEnd,
    raw_df, header_row_index, detected,
    raw_column_name, cleanings, df_columns, clean_columns, existing_columns,
    arg_file_path, arg_sheet_name, safe_table_name, script_result>>

\* What the pipeline works on.
pvars == <<folder, nrows, db, run, files, fi, si, step, log, runEnd>>

\* What the sanitizers work on.
svars ==
  <<raw_column_name, cleanings, df_columns, clean_columns, existing_columns,
    arg_file_path, arg_sheet_name, safe_table_name>>

\* The sanitizers before any call.
SanitizersIdle ==
  /\ raw_column_name = <<>>
  /\ cleanings = <<>>
  /\ df_columns = <<>>
  /\ clean_columns = <<>>
  /\ existing_columns = {}
  /\ arg_file_path = <<>>
  /\ arg_sheet_name = <<>>
  /\ safe_table_name = <<>>

\* What the header detector works on.
dvars == <<raw_df, header_row_index, detected>>

CurFile == files[fi]
CurSheet == CurFile.sheets[si]
CurDf == DataFrame(CurSheet, nrows)
CurTable == get_safe_table_name(CurFile.name, CurSheet.sheet)
CurTag == [run |-> run, file |-> CurFile.name, sheet |-> CurSheet.sheet]
IsExcel(f) == Suffix(f.name) \in ExcelSuffixes

\* file_format: Path(file_path).suffix.lower() of a workbook, "csv" otherwise.
FileFormat(f) == IF IsExcel(f) THEN Suffix(f.name) ELSE <<"c", "s", "v">>

Event(stp, outcome) ==
  [run |-> run, file |-> CurFile.name, sheet |-> CurSheet.sheet,
   step |-> stp, outcome |-> outcome]

Init ==
  /\ folder \in SUBSET Catalogue
  /\ nrows \in 1..MaxRows
  /\ db = [conn |-> EmptyStore, disk |-> EmptyStore]
  /\ run = 0
  /\ files = <<>>
  /\ fi = 1
  /\ si = 1
  /\ step = "idle"
  /\ log = {}
  /\ runEnd = <<>>
  /\ raw_df = <<>>
  /\ header_row_index = 0
  /\ detected = FALSE
  /\ SanitizersIdle
  /\ script_result = NoOutcome

\* Go on with the next sheet of the workbook, or with the next file.
NextSource ==
  IF si < Len(CurFile.sheets)
  THEN fi' = fi /\ si' = si + 1
  ELSE fi' = fi + 1 /\ si' = 1

\* The except clause of process_excel_file / process_csv_file: the error is
\* logged and the method returns, so the loop of merge_all_pricelists goes
\* on with the next file.
AbandonFile == fi' = fi + 1 /\ si' = 1

\* merge_all_pricelists up to its loop: connect_db, create_metadata_table,
\* create_unified_table, get_all_files; without files it returns (and the
\* finally clause closes the connection).
merge_all_pricelists_begin ==
  /\ step = "idle"
  /\ run < MaxRuns
  /\ run' = run + 1
  /\ LET opened == create_unified_table(create_metadata_table(db))
         found == get_all_files(folder)
     IN /\ files' = found
        /\ fi' = 1
        /\ si' = 1
        /\ IF found = <<>>
           THEN /\ db' = Close(opened)
                /\ step' = "idle"
                /\ runEnd' = Append(runEnd, opened.disk)
           ELSE /\ db' = opened
                /\ step' = "read"
                /\ runEnd' = runEnd
  /\ UNCHANGED <<folder, nrows, log, dvars, svars, script_result>>

\* The start of one source: the sheet (or the CSV file) is parsed; an empty
\* one is skipped with a warning.
read_source ==
  /\ step = "read"
  /\ fi <= Len(files)
  /\ IF IsEmpty(CurDf)
     THEN /\ log' = log \cup {Event("read", "empty")}
          /\ NextSource
          /\ step' = "read"
     ELSE /\ log' = log \cup {Event("read", OK)}
          /\ UNCHANGED <<fi, si>>
          /\ step' = "create"
  /\ UNCHANGED <<folder, nrows, db, run, files, runEnd, dvars, svars, script_result>>

\* self.create_table_for_file(table_name, df, file_path, sheet_name)
create_table_step ==
  /\ step = "create"
  /\ LET r == create_table_for_file(db, CurTable, CurDf)
     IN /\ db' = r.db
        /\ log' = log \cup {Event("create", r.error)}
        /\ IF r.error = OK
           THEN UNCHANGED <<fi, si>> /\ step' = "insert"
           ELSE AbandonFile /\ step' = "read"
  /\ UNCHANGED <<folder, nrows, run, files, runEnd, dvars, svars, script_result>>

\* self.insert_data_to_table(table_name, df, file_path, sheet_name)
insert_data_step ==
  /\ step = "insert"
  /\ LET r == insert_data_to_table(db, CurTable, CurDf, CurTag)
     IN /\ db' = r.db
        /\ log' = log \cup {Event("insert", r.error)}
        /\ IF r.error = OK
           THEN UNCHANGED <<fi, si>> /\ step' = "union"
           ELSE AbandonFile /\ step' = "read"
  /\ UNCHANGED <<folder, nrows, run, files, runEnd, dvars, svars, script_result>>

\* self.insert_to_unified_table(df, file_path, sheet_name)
insert_unified_step ==
  /\ step = "union"
  /\ LET r == insert_to_unified_table(db, CurDf, CurFile.name, CurSheet.sheet, CurTag)
     IN /\ db' = r.db
        /\ log' = log \cup {Event("union", r.error)}
        /\ IF r.error = OK
           THEN UNCHANGED <<fi, si>> /\ step' = "meta"
           ELSE AbandonFile /\ step' = "read"
  /\ UNCHANGED <<folder, nrows, run, files, runEnd, dvars, svars, script_result>>

\* self.add_metadata(table_name, file_path, sheet_name, len(df),
\* len(df.columns), file_size_mb, file_format), then the next source.
add_metadata_step ==
  /\ step = "meta"
  /\ db' = add_metadata(db, MetadataRecord(CurTable, CurFile.name, CurSheet.sheet,
                                           Len(CurDf.rows), Len(CurDf.columns),
                                           FileFormat(CurFile), run))
  /\ log' = log \cup {Event("meta", OK)}
  /\ NextSource
  /\ step' = "read"
  /\ UNCHANGED <<folder, nrows, run, files, runEnd, dvars, svars, script_result>>

\* merge_all_pricelists after its loop: the totals are read and logged and
\* the finally clause closes the connection.
merge_all_pricelists_end ==
  /\ step = "read"
  /\ fi > Len(files)
  /\ db' = Close(db)
  /\ step' = "idle"
  /\ runEnd' = Append(runEnd, db.disk)
  /\ UNCHANGED <<folder, nrows, run, files, fi, si, log, dvars, svars, script_result>>

Next ==
  \/ merge_all_pricelists_begin
  \/ read_source
  \/ create_table_step
  \/ insert_data_step
  \/ insert_unified_step
  \/ add_metadata_step
  \/ merge_all_pricelists_end

Spec == Init /\ [][Next]_vars

(***************************************************************************)
(* The export and view scripts, run once at some moment of the pipeline's  *)
(* life on what is committed to the database file.                        *)
(***************************************************************************)
\* A table name that no source of the folder gets.
MISSING_TABLE == <<"z", "z", "z">>

\* The table names a user asks for.
AskedTables(st) == DOMAIN st.tables \cup {PRICELISTS_METADATA, MISSING_TABLE}

\* The source files a user asks for: file names of the folder as they are,
\* in capitals and with another separator, a blank, and a name of no file.
AskedSources ==
  {<<"a", " ", "b", ".", "c", "s", "v">>,
   <<"a", "-", "b", ".", "c", "s", "v">>,
   <<"A", "-", "B", ".", "C", "S", "V">>,
   <<"a", "_", "b", ".", "c", "s", "v">>,
   <<"c", ".", "x", "l", "s", "x">>,
   <<" ">>,
   <<"x", ".", "c", "s", "v">>}

export_specific_table_call ==
  /\ script_result = NoOutcome
  /\ \E t \in AskedTables(db.disk) : script_result' = export_specific_table(db.disk, t)
  /\ UNCHANGED <<pvars, dvars, svars>>

export_by_source_call ==
  /\ script_result = NoOutcome
  /\ \E f \in AskedSources : script_result' = export_by_source(db.disk, f)
  /\ UNCHANGED <<pvars, dvars, svars>>

search_by_source_call ==
  /\ script_result = NoOutcome
  /\ \E f \in AskedSources : script_result' = search_by_source(db.disk, f)
  /\ UNCHANGED <<pvars, dvars, svars>>

export_unified_table_call ==
  /\ script_result = NoOutcome
  /\ \E saved \in BOOLEAN : script_result' = export_unified_table(db.disk, saved)
  /\ UNCHANGED <<pvars, dvars, svars>>

\* The pipeline as long as no script has been run.
merge_step == script_result = NoOutcome /\ Next

ExportNext ==
  \/ merge_step
  \/ export_specific_table_call
  \/ export_by_source_call
  \/ search_by_source_call
  \/ export_unified_table_call

ExportSpec == Init /\ [][ExportNext]_vars

(***************************************************************************)
(* detect_data_start_row applied to a raw grid, on its own.                *)
(***************************************************************************)
DetectInit ==
  /\ raw_df \in RawGrids
  /\ header_row_index = 0
  /\ detected = FALSE
  /\ folder = {}
  /\ nrows = 1
  /\ db = [conn |-> EmptyStore, disk |-> EmptyStore]
  /\ run = 0
  /\ files = <<>>
  /\ fi = 1
  /\ si = 1
  /\ step = "idle"
  /\ log = {}
  /\ runEnd = <<>>
  /\ SanitizersIdle
  /\ script_result = NoOutcome

\* header_row_index = self.detect_data_start_row(raw_df)
detect_header ==
  /\ ~detected
  /\ header_row_index' = detect_data_start_row(raw_df)
  /\ detected' = TRUE
  /\ UNCHANGED <<pvars, raw_df, svars, script_result>>

DetectNext == detect_header

DetectSpec == DetectInit /\ [][DetectNext]_vars

(***************************************************************************)
(* Properties of the ingestion pipeline                                    *)
(***************************************************************************)

UnionColumns(st) == TableColumns(st, ALL_PRICELISTS)
UnionRows(st) == TableRows(st, ALL_PRICELISTS)

\* The columns of a per-source table after id, source_row, processed_at.
DataColumns(st, t) == {TableColumns(st, t)[i] : i \in 4..Len(TableColumns(st, t))}

\* The columns of the union table after its five base columns.
UnionDataColumns(st) == {UnionColumns(st)[i] : i \in 6..Len(UnionColumns(st))}

PerSourceTables(st) == DOMAIN st.tables \ {ALL_PRICELISTS}

\* The sheet a file of the folder holds under a sheet name.
SheetOf(file_name, sheet_name) ==
  CHOOSE sh \in UNION {Range(f.sheets) : f \in Catalogue} :
    \E f \in Catalogue : f.name = file_name /\ sh \in Range(f.sheets) /\ sh.sheet = sheet_name

\* The rows of table t that one processing (run, file, sheet) inserted.
RowsFrom(st, t, r, file_name, sheet_name) ==
  {i \in 1..Len(TableRows(st, t)) :
     /\ TableRows(st, t)[i].run = r
     /\ TableRows(st, t)[i].file = file_name
     /\ TableRows(st, t)[i].sheet = sheet_name}

RunOver == step = "idle" /\ run >= 1

\* C1: once create_table_for_file, insert_data_to_table and
\* insert_to_unified_table have processed a source, every data column of its
\* per-source table (suffixed ones such as name_1 included) is a column of
\* all_pricelists.
C1_UnionHasEverySourceColumn ==
  \A e \in log :
    (e.step = "union" /\ e.outcome = OK) =>
      DataColumns(db.conn, get_safe_table_name(e.file, e.sheet))
        \subseteq Range(UnionColumns(db.conn))

C3_EverySourceAttempted ==
  RunOver =>
    \A f \in folder : \A k \in 1..Len(f.sheets) :
      \E e \in log :
        e.run = run /\ e.file = f.name /\ e.sheet = f.sheets[k].sheet /\ e.step = "read"

\* C4: when a run is over, neither a per-source table nor the union table
\* holds a row that an insertion step which failed had inserted.
C4_FailedInsertsRolledBack ==
  RunOver =>
    \A e \in log :
      /\ (e.step = "insert" /\ e.outcome # OK) =>
           RowsFrom(db.disk, get_safe_table_name(e.file, e.sheet), e.run, e.file, e.sheet) = {}
      /\ (e.step = "union" /\ e.outcome # OK) =>
           RowsFrom(db.disk, ALL_PRICELISTS, e.run, e.file, e.sheet) = {}

\* C5: two distinct sources never get the same table name, and no per-source
\* table holds rows of two sources.
C5_OneSourcePerTable ==
  /\ \A e1, e2 \in log :
       (e1.step = "create" /\ e2.step = "create"
          /\ <<e1.file, e1.sheet>> # <<e2.file, e2.sheet>>) =>
         get_safe_table_name(e1.file, e1.sheet) # get_safe_table_name(e2.file, e2.sheet)
  /\ \A t \in PerSourceTables(db.conn) :
       \A i, j \in 1..Len(TableRows(db.conn, t)) :
         /\ TableRows(db.conn, t)[i].file = TableRows(db.conn, t)[j].file
         /\ TableRows(db.conn, t)[i].sheet = TableRows(db.conn, t)[j].sheet

\* C6: pricelists_metadata never holds two records of one table name.
C6_OneRecordPerTable ==
  \A st \in {db.conn, db.disk} :
    \A i, j \in 1..Len(st.meta) :
      i # j => st.meta[i].table_name # st.meta[j].table_name

\* add_metadata has been called twice for one table name.
C6_Witness ==
  /\ db.disk.meta # <<>>
  /\ \E e1, e2 \in log :
       /\ e1.step = "meta" /\ e2.step = "meta" /\ e1 # e2
       /\ get_safe_table_name(e1.file, e1.sheet) = get_safe_table_name(e2.file, e2.sheet)

\* C7: after the second run over the same folder every table holds twice
\* the rows it held after the first, the tables and their columns are the
\* same, and so is the number of metadata records.
C7_SecondRunDoubles ==
  Len(runEnd) >= 2 =>
    /\ DOMAIN runEnd[2].tables = DOMAIN runEnd[1].tables
    /\ \A t \in DOMAIN runEnd[1].tables :
         /\ TableColumns(runEnd[2], t) = TableColumns(runEnd[1], t)
         /\ Len(TableRows(runEnd[2], t)) = 2 * Len(TableRows(runEnd[1], t))
    /\ Len(runEnd[2].meta) = Len(runEnd[1].meta)

IsPrefix(a, b) == Len(a) <= Len(b) /\ SubSeq(b, 1, Len(a)) = a

\* Every column of the source at the union step is already a column of
\* all_pricelists.
AllColumnsPresent ==
  \A j \in 1..Len(CurDf.columns) :
    \E c \in Range(UnionColumns(db.conn)) :
      SameIdentifier(c, clean_column_name(CurDf.columns[j]))

\* C8: no step removes, renames or reorders a column of all_pricelists, in
\* the connection or in the committed store; re-adding columns that are all
\* present leaves the columns as they are, and no union step ends with the
\* store's "duplicate column name" error.
C8_UnionColumnsOnlyGrow ==
  [][/\ IsPrefix(UnionColumns(db.conn), UnionColumns(db'.conn))
     /\ IsPrefix(UnionColumns(db.disk), UnionColumns(db'.disk))
     /\ (step = "union" /\ AllColumnsPresent) =>
          UnionColumns(db'.conn) = UnionColumns(db.conn)
     /\ \A e \in log' \ log :
          e.step = "union" => e.outcome # "duplicate column name"]_vars

\* In a second run a source whose columns were all present went through
\* insert_to_unified_table.
C8_Witness ==
  /\ Len(UnionColumns(db.disk)) > 5
  /\ \E e \in log : e.run = 2 /\ e.step = "union" /\ e.outcome = OK

\* The sanitized names of the columns of the source a row came from.
OwnColumns(file_name, sheet_name) ==
  {clean_column_name(SheetOf(file_name, sheet_name).cols[j].name) :
     j \in 1..Len(SheetOf(file_name, sheet_name).cols)}

\* The values insert_to_unified_table may store in column c for a row of a
\* source: those of the source's cells under a header sanitizing to c.
OwnValues(file_name, sheet_name, c) ==
  LET sh == SheetOf(file_name, sheet_name)
  IN {UnifiedValue(Cell(sh, i, j, nrows)) :
        i \in 1..nrows, j \in {k \in 1..Len(sh.cols) : clean_column_name(sh.cols[k].name) = c}}

\* C9: all_pricelists has one column per sanitized name, each the sanitized
\* name of a column of some source; a row holds in a column of its own
\* source a value of that source's cells, and NULL in every data column that
\* belongs to other sources only.
C9_SharedColumnOnceOthersNull ==
  LET cols == UnionColumns(db.conn)
      rows == UnionRows(db.conn)
  IN /\ \A i, j \in 1..Len(cols) : i # j => ~SameIdentifier(cols[i], cols[j])
     /\ \A c \in UnionDataColumns(db.conn) :
          \E f \in folder : \E k \in 1..Len(f.sheets) :
            c \in OwnColumns(f.name, f.sheets[k].sheet)
     /\ \A i \in 1..Len(rows) : \A c \in UnionDataColumns(db.conn) :
          IF c \in OwnColumns(rows[i].file, rows[i].sheet)
          THEN rows[i].vals[c] \in OwnValues(rows[i].file, rows[i].sheet, c)
          ELSE rows[i].vals[c] = NULL

\* Rows of two files hold values in a shared column, and one of them holds
\* a value in a column that the other's source does not have.
C9_Witness ==
  LET rows == UnionRows(db.disk)
  IN \E i, j \in 1..Len(rows) : \E c, c2 \in UnionDataColumns(db.disk) :
       /\ rows[i].file # rows[j].file
       /\ rows[i].vals[c] # NULL /\ rows[j].vals[c] # NULL
       /\ c2 \notin OwnColumns(rows[j].file, rows[j].sheet)
       /\ rows[i].vals[c2] # NULL /\ rows[j].vals[c2] = NULL

(***************************************************************************)
(* The two sanitizers applied on their own.                                *)
(***************************************************************************)
\* The longest raw column name drawn in full.
MaxNameLen == 4
\* How often clean_column_name is applied to its own result.
MaxPasses == 2
\* The longest header drawn.
MaxHeaders == 3
\* The longest file stem drawn.
MaxStemLen == 2

\* All texts over an alphabet, from length lo to length hi.
Texts(alphabet, lo, hi) == UNION {[1..k -> alphabet] : k \in lo..hi}

\* A letter, a digit, the underscore, a character of invalid_chars and one
\* that is in neither [A-Za-z0-9_] nor invalid_chars.
NameAlphabet == {"a", "1", "_", " ", "~"}

\* Raw names one or two characters longer than the cut of line 404.
LongNames ==
  {[i \in 1..(MaxColumnNameLen - 2) |-> "a"] \o t : t \in Texts(NameAlphabet, 3, 3)}

RawColumnNames == Texts(NameAlphabet, 0, MaxNameLen) \cup LongNames \cup {None}

\* The raw header values of one table.
HeaderValues ==
  {None, <<>>, <<"a">>, <<"a", " ">>, <<"a", "_", "1">>, <<"A">>,
   UNNAMED_COLUMN, <<"1">>}

Headers == UNION {[1..n -> HeaderValues] : n \in 1..MaxHeaders}

\* File names: a stem over a letter, a digit and three characters outside
\* [A-Za-z0-9_] (one of them Cyrillic), with a suffix.
StemAlphabet == {"a", "1", "~", " ", "ru:p"}
DOT_CSV == <<".", "c", "s", "v">>
DOT_XLSX == <<".", "x", "l", "s", "x">>
SheetNames ==
  {<<"s">>, <<"1">>, <<"~">>, <<"_">>, <<"1", "_", "2">>, <<"RU:L", "1">>, CSV}

SanitizeInit ==
  /\ folder = {}
  /\ nrows = 1
  /\ db = [conn |-> EmptyStore, disk |-> EmptyStore]
  /\ run = 0
  /\ files = <<>>
  /\ fi = 1
  /\ si = 1
  /\ step = "idle"
  /\ log = {}
  /\ runEnd = <<>>
  /\ raw_df = <<>>
  /\ header_row_index = 0
  /\ detected = FALSE
  /\ cleanings = <<>>
  /\ clean_columns = <<>>
  /\ existing_columns = {}
  /\ safe_table_name = <<>>
  /\ script_result = NoOutcome
  /\ \/ /\ raw_column_name \in RawColumnNames
        /\ df_columns = <<>>
        /\ arg_file_path = <<>>
        /\ arg_sheet_name = <<>>
     \/ /\ raw_column_name = <<>>
        /\ df_columns \in Headers
        /\ arg_file_path = <<>>
        /\ arg_sheet_name = <<>>
     \/ /\ raw_column_name = <<>>
        /\ df_columns = <<>>
        /\ \E stem \in Texts(StemAlphabet, 1, MaxStemLen) :
             \/ arg_file_path = stem \o DOT_CSV /\ arg_sheet_name = CSV
             \/ arg_file_path = stem \o DOT_XLSX /\ arg_sheet_name \in SheetNames

\* clean_column = self.clean_column_name(column_name), on the raw name first
\* and then on what the call before returned.
clean_column ==
  /\ df_columns = <<>>
  /\ arg_file_path = <<>>
  /\ Len(cleanings) < MaxPasses
  /\ cleanings' =
       Append(cleanings,
              clean_column_name(IF cleanings = <<>> THEN raw_column_name
                                ELSE cleanings[Len(cleanings)]))
  /\ UNCHANGED <<script_result, pvars, dvars, raw_column_name, df_columns, clean_columns,
                 existing_columns, arg_file_path, arg_sheet_name, safe_table_name>>

\* One turn of the loop of create_table_for_file:
\* clean_col = self.clean_column_name(col, existing_columns)
clean_header ==
  /\ Len(clean_columns) < Len(df_columns)
  /\ LET col == df_columns[Len(clean_columns) + 1]
     IN /\ clean_columns' =
             Append(clean_columns, clean_column_name_in(col, existing_columns))
        /\ existing_columns' = existing_columns_after(col, existing_columns)
  /\ UNCHANGED <<script_result, pvars, dvars, raw_column_name, cleanings, df_columns,
                 arg_file_path, arg_sheet_name, safe_table_name>>

\* table_name = self.get_safe_table_name(file_path, sheet_name)
name_table ==
  /\ arg_file_path # <<>>
  /\ safe_table_name = <<>>
  /\ safe_table_name' = get_safe_table_name(arg_file_path, arg_sheet_name)
  /\ UNCHANGED <<script_result, pvars, dvars, raw_column_name, cleanings, df_columns,
                 clean_columns, existing_columns, arg_file_path, arg_sheet_name>>

SanitizeNext == clean_column \/ clean_header \/ name_table

SanitizeSpec == SanitizeInit /\ [][SanitizeNext]_vars

(***************************************************************************)
(* The header detector.                                                    *)
(***************************************************************************)
\* The distinct terms of a list that occur somewhere in a row.
TermsInRow(row, terms) ==
  {t \in terms : \E j \in 1..Len(row) : CellHasTerm(row[j], {t})}

\* For every row the grids are built from: how many distinct header terms
\* and how many distinct boilerplate terms it contains.
DistinctTerms ==
  [r \in GridRows |->
     [header |-> Cardinality(TermsInRow(r, typical_headers \cup strong_headers)),
      boilerplate |-> Cardinality(TermsInRow(r, service_words))]]

\* Row i (1-based) is passed over by the detector: it is outside the first
\* 30 rows, or its counts do not make it the header.
PassedOver(i) ==
  \/ i > ScanLimit
  \/ service_count(raw_df[i]) > 2
  \/ (found_headers(raw_df[i]) < 3 /\ strong_matches(raw_df[i]) < 2)

\* C10 (as stated): a row of the grid that contains at least 3 distinct
\* header-vocabulary terms and at most 2 boilerplate terms has its index
\* returned by detect_data_start_row.
C10_RowWithThreeTermsIsReturned ==
  detected =>
    \A i \in 1..Len(raw_df) :
      (DistinctTerms[raw_df[i]].header >= 3
       /\ DistinctTerms[raw_df[i]].boilerplate <= 2)
        => header_row_index = i - 1

\* C10 (amended): a row among the first 30 with at least 3 cells that each
\* contain a header term and at most 2 cells that contain a boilerplate
\* term has its index returned, provided no row before it is taken as the
\* header.
C10_FirstRowWithThreeHeaderCellsIsReturned ==
  detected =>
    \A i \in 1..Len(raw_df) :
      (/\ i <= 30
       /\ found_headers(raw_df[i]) >= 3
       /\ service_count(raw_df[i]) <= 2
       /\ \A k \in 1..(i - 1) : PassedOver(k))
        => header_row_index = i - 1

\* The detector has returned the index of a row with exactly 2 boilerplate
\* cells and at least 3 header cells, after passing over a banner row that
\* also has 3 header cells.
C10_Witness ==
  /\ detected
  /\ header_row_index >= 1
  /\ found_headers(raw_df[header_row_index + 1]) >= 3
  /\ service_count(raw_df[header_row_index + 1]) = 2
  /\ \E k \in 1..header_row_index :
       service_count(raw_df[k]) > 2 /\ found_headers(raw_df[k]) >= 3

\* C11 (as stated): the index returned by detect_data_start_row is never the
\* index of a row with more than 2 boilerplate cells.
C11_ReturnedRowIsNoBanner ==
  detected => service_count(raw_df[header_row_index + 1]) <= 2

\* C11 (amended): a row with more than 2 boilerplate cells is never taken as
\* the header; its index is returned only as the fallback 0, when it is the
\* first row and none of the first 30 rows is taken as the header.
C11_BannerOnlyAsFallback ==
  detected =>
    (service_count(raw_df[header_row_index + 1]) > 2 =>
       /\ header_row_index = 0
       /\ \A i \in 1..Len(raw_df) : PassedOver(i))

\* A banner row with 3 header cells was passed over and a later row was
\* returned.
C11_Witness ==
  /\ detected
  /\ header_row_index >= 1
  /\ service_count(raw_df[header_row_index + 1]) <= 2
  /\ \E k \in 1..header_row_index :
       service_count(raw_df[k]) > 2 /\ found_headers(raw_df[k]) >= 3

\* C12: for a grid in which every row has more than 2 boilerplate cells,
\* detect_data_start_row returns 0.
C12_AllBannersGiveZero ==
  detected =>
    ((\A i \in 1..Len(raw_df) : service_count(raw_df[i]) > 2)
       => header_row_index = 0)

\* The detector has returned 0 for a grid of several banner rows of which
\* one after the first has 3 header cells.
C12_Witness ==
  /\ detected
  /\ Len(raw_df) >= 2
  /\ \A i \in 1..Len(raw_df) : service_count(raw_df[i]) > 2
  /\ \E i \in 2..Len(raw_df) : found_headers(raw_df[i]) >= 3
  /\ header_row_index = 0

(***************************************************************************)
(* The sanitizers.                                                         *)
(***************************************************************************)
\* C13: clean_column_name applied to its own result returns that result.
C13_CleanIsIdempotent ==
  Len(cleanings) >= 2 => cleanings[2] = cleanings[1]

\* C14: the names clean_column_name returns for the header of one table,
\* against one shared set, are pairwise distinct and all recorded in the set.
C14_NamesDistinctAndRecorded ==
  /\ \A i, j \in 1..Len(clean_columns) :
       i # j => clean_columns[i] # clean_columns[j]
  /\ \A i \in 1..Len(clean_columns) : clean_columns[i] \in existing_columns

\* C15: the name clean_column_name returns has only characters of
\* [A-Za-z0-9_].
C15_OnlyWordChars ==
  Len(cleanings) >= 1 =>
    \A i \in 1..Len(cleanings[1]) : cleanings[1][i] \in WordChars

\* C16: the name clean_column_name returns is not empty and does not start
\* with a digit.
C16_NonEmptyNoLeadingDigit ==
  Len(cleanings) >= 1 =>
    cleanings[1] # <<>> /\ cleanings[1][1] \notin Digits

\* The stem of the file name has no character of [A-Za-z0-9_].
StemHasNoWordChar ==
  \A i \in 1..Len(Stem(arg_file_path)) : Stem(arg_file_path)[i] \notin WordChars

\* C17 (as stated): for a file name with no character of [A-Za-z0-9_],
\* get_safe_table_name returns unnamed_table, whatever the sheet name.
C17_AlwaysPlaceholder ==
  (safe_table_name # <<>> /\ StemHasNoWordChar)
    => safe_table_name = UNNAMED_TABLE

\* C17 (amended): it does so for a delimited-text source (sheet "CSV" or
\* none) and for a sheet name that has no letter and no digit of
\* [A-Za-z0-9] either.
C17_PlaceholderWithoutSheetLetters ==
  (/\ safe_table_name # <<>>
   /\ StemHasNoWordChar
   /\ \/ arg_sheet_name \in {CSV, <<>>}
      \/ \A i \in 1..Len(arg_sheet_name) :
           arg_sheet_name[i] \notin (WordChars \ {"_"}))
    => safe_table_name = UNNAMED_TABLE

\* A workbook whose stem has no character of [A-Za-z0-9_] and whose sheet
\* name is not "CSV" has been named unnamed_table.
C17_Witness ==
  /\ safe_table_name = UNNAMED_TABLE
  /\ StemHasNoWordChar
  /\ arg_sheet_name \notin {CSV, <<>>}

\* For every row the grids are built from: the number of text cells that
\* contain at least one term of each list.
CellCounts ==
  [r \in GridRows |->
     [found |-> Cardinality({j \in 1..Len(r) : CellHasTerm(r[j], typical_headers)}),
      strong |-> Cardinality({j \in 1..Len(r) : CellHasTerm(r[j], strong_headers)}),
      service |-> Cardinality({j \in 1..Len(r) : CellHasTerm(r[j], service_words)})]]

\* Row i (0-based) of the grid has service_count <= 2 and found_headers >= 3
\* or strong_matches >= 2.
Qualifies(i) ==
  LET c == CellCounts[raw_df[i + 1]]
  IN c.service <= 2 /\ (c.found >= 3 \/ c.strong >= 2)

\* The qualifying rows below min(30, number of rows).
QualifyingRows ==
  {i \in 0..((IF Len(raw_df) < 30 THEN Len(raw_df) ELSE 30) - 1) : Qualifies(i)}

\* C20: detect_data_start_row returns the smallest index below min(30, number
\* of rows) of a row with service_count <= 2 and found_headers >= 3 or
\* strong_matches >= 2, and 0 when there is none; rows from index 30 on do
\* not matter.
C20_SmallestQualifyingRowOrZero ==
  detected =>
    header_row_index =
      IF QualifyingRows = {} THEN 0
      ELSE CHOOSE i \in QualifyingRows : \A j \in QualifyingRows : i <= j

\* The detector has returned 0 for a grid whose row 30 qualifies and whose
\* rows 0 to 29 do not.
C20_Witness ==
  /\ detected
  /\ Len(raw_df) > 30
  /\ Qualifies(30)
  /\ QualifyingRows = {}
  /\ header_row_index = 0

(***************************************************************************)
(* The export and view scripts.                                            *)
(***************************************************************************)
\* C18: export_specific_table of a table that exists and has no rows does
\* not report success and writes no workbook.
C18_EmptyTableReportsNoData ==
  (/\ script_result.call = "export_specific_table"
   /\ InSqliteMaster(db.disk, script_result.arg)
   /\ CountRows(db.disk, script_result.arg) = 0)
    => script_result.returned = "False" /\ script_result.workbook = <<>>

\* C19: export_by_source and search_by_source select exactly the metadata
\* records whose source_file contains the whole given string, letter case
\* respected.
C19_SelectsBySubstring ==
  script_result.call \in {"export_by_source", "search_by_source"} =>
    script_result.selected =
      SelectSeq(db.disk.meta, LAMBDA m : IsSubstring(script_result.arg, m.source_file))

(***************************************************************************)
(* Rows and their provenance.                                              *)
(***************************************************************************)
\* The position of row i of table t among the rows that the same processing
\* (run, file, sheet) inserted: the 1-based position of its source row in
\* the parsed table.
Ordinal(st, t, i) ==
  LET rows == TableRows(st, t)
  IN Cardinality({k \in 1..i : /\ rows[k].run = rows[i].run
                               /\ rows[k].file = rows[i].file
                               /\ rows[k].sheet = rows[i].sheet})

\* C21: a row of a per-source table holds, for every source column whose
\* cell is not null, that cell's value in the column create_table_for_file
\* makes for the source column (suffixed where sanitized names collide).
C21_PerSourceRowsKeepEveryCell ==
  \A t \in PerSourceTables(db.conn) :
    \A i \in 1..Len(TableRows(db.conn, t)) :
      LET row == TableRows(db.conn, t)[i]
          df == DataFrame(SheetOf(row.file, row.sheet), nrows)
          names == CleanColumnsIn(df.columns, {})
          k == Ordinal(db.conn, t, i)
      IN \A j \in 1..Len(df.columns) :
           ~IsNa(df.rows[k][j]) =>
             /\ names[j] \in DOMAIN row.vals
             /\ row.vals[names[j]] = TableValue(df.rows[k][j])

\* C22: when a run is over, for every source of the folder the rows the run
\* committed to its per-source table are as many as the rows the run
\* committed to all_pricelists for it, and add_metadata was called for the
\* source in the run exactly when both have rows.
C22_TargetsConsistent ==
  RunOver =>
    \A f \in folder : \A k \in 1..Len(f.sheets) :
      LET sh == f.sheets[k].sheet
          own == RowsFrom(db.disk, get_safe_table_name(f.name, sh), run, f.name, sh)
          union == RowsFrom(db.disk, ALL_PRICELISTS, run, f.name, sh)
          recorded == \E e \in log :
                        e.run = run /\ e.file = f.name /\ e.sheet = sh /\ e.step = "meta"
      IN /\ Cardinality(own) = Cardinality(union)
         /\ recorded <=> (own # {} /\ union # {})

\* C23: every row of all_pricelists holds in source_file the base name of
\* the file it came from, in sheet_name the sheet's name (or CSV) and in
\* source_row the 1-based position of its row in the parsed table.
C23_UnionRowsCarryProvenance ==
  \A i \in 1..Len(UnionRows(db.conn)) :
    LET row == UnionRows(db.conn)[i]
    IN /\ row.vals[COL_SOURCE_FILE] = NameValue(row.file)
       /\ row.vals[COL_SHEET_NAME] = NameValue(row.sheet)
       /\ row.vals[COL_SOURCE_ROW] = IntCell(Ordinal(db.conn, ALL_PRICELISTS, i))

\* C24: export_unified_table, called when all_pricelists holds a row,
\* completes and writes its workbook of three sheets; when a run is over,
\* all_pricelists has the column section_separator.
C24_UnifiedExportCompletes ==
  /\ (script_result.call = "export_unified_table" /\ UnionRows(db.disk) # <<>>) =>
       script_result.message = "export finished" /\ Len(script_result.workbook) = 3
  /\ RunOver => SECTION_SEPARATOR \in Range(UnionColumns(db.disk))

====
